---- MODULE Spec2Model ----
(***************************************************************************)
(* Yad2CarMonitor (src/yad2_monitor.py): one scheduled invocation of       *)
(* main() constructs the monitor (load_data), and run() fetches the total  *)
(* results counter, compares it with the stored last_total, notifies over  *)
(* Telegram, persists the state file and closes the browser session.       *)
(*                                                                         *)
(* The state file is a JSON document, modelled as a function from keys to  *)
(* values; the document {} is the function with the empty domain.  A       *)
(* timestamp is a reading of a logical clock that advances every time      *)
(* datetime.now() is stored into the state.  A text is a sequence of       *)
(* characters.  A write of the state file is written, fails before the    *)
(* file is touched (open raises), or is torn (the file is truncated and    *)
(* the dump fails).  The listings returned by get_new_listings are         *)
(* modelled by their number, and a Telegram post by the message and        *)
(* whether it was delivered.                                               *)
(***************************************************************************)
EXTENDS Integers, Sequences, FiniteSets, TLC

VARIABLES
  file,           \* the storage file: [kind: missing | corrupt | json, doc]
  data,           \* self.data
  driver,         \* self.driver: "none" (None) or "live" (a Chrome session)
  pc,             \* position of the invocation inside main() / run()
  current_total,  \* run()'s local current_total
  exc,            \* the exception in flight: [raised, msg, at]
  sent,           \* the Telegram posts of this invocation, in order
  closes,         \* executions of close_driver in this invocation
  saves,          \* executions of save_data in this invocation
  wrote,          \* what became of this invocation's write of the file
  extracted,      \* executions of get_new_listings in this invocation
  path,           \* the branch of run() this invocation took
  data0,          \* self.data as loaded by this invocation
  file0,          \* the storage file as this invocation found it
  clock,          \* datetime.now(), logical
  log,            \* every history entry appended since the first invocation
  streak,         \* appends by change-detecting runs since the last first-run append
  lost,           \* a write of the file failed since the streak began
  writes,         \* what a write of the storage file can come to
  totals,         \* the counts the listing page can show
  maxAppends      \* the invocations stop once this many entries were appended

vars == <<file, data, driver, pc, current_total, exc, sent, closes, saves,
          wrote, extracted, path, data0, file0, clock, log, streak, lost,
          writes, totals, maxAppends>>

-----------------------------------------------------------------------------
(* Bounds of the model.                                                    *)

MaxAppends == 3     \* history entries appended in a behaviour of Spec
LongAppends == 102  \* history entries appended in a behaviour of SpecLong
MaxTotal == 2       \* the page shows a count in 0..MaxTotal
MaxErrLen == 201    \* longest exception message

(* Constants of the program.                                               *)

None == -1           \* Optional[int]: no counter found
Unbound == -2        \* run()'s local current_total before it is assigned
HistoryCap == 100    \* history entries kept by a change-detecting run
StatusEvery == 50    \* a status message every 50 history entries
ErrTrunc == 200      \* characters of the exception message that are sent
MaxListings == 5     \* listings[:5]
ShownListings == 3   \* new_listings[:3]

-----------------------------------------------------------------------------
(* Documents and the State Store.                                          *)

EmptyObject == [k \in {} |-> 0]

HasKey(d, k) == k \in DOMAIN d

SetKey(d, k, v) == (k :> v) @@ d

DefaultData ==
  [last_total |-> 0, last_check |-> 0, history |-> << >>, seen_car_ids |-> << >>]

JsonFile(d) == [kind |-> "json", doc |-> d]

MissingFile == [kind |-> "missing", doc |-> EmptyObject]

CorruptFile == [kind |-> "corrupt", doc |-> EmptyObject]

load_data(f) == IF f.kind = "json" THEN f.doc ELSE DefaultData

(* save_data stamps last_check on self.data and overwrites the file with   *)
(* it; an exception of open() or json.dump() is printed, not raised.       *)
save_data(d, f, now, outcome) ==
  LET stamped == SetKey(d, "last_check", now)
  IN  [data |-> stamped,
       file |-> CASE outcome = "written" -> JsonFile(stamped)
                  [] outcome = "failed"  -> f
                  [] outcome = "torn"    -> CorruptFile]

-----------------------------------------------------------------------------
(* The browser session.                                                    *)

setup_driver(outcome) ==
  CASE outcome = "ok"           -> [driver |-> "live", raised |-> FALSE]
    [] outcome = "chrome_fails" -> [driver |-> "none", raised |-> TRUE]
    [] outcome = "wait_fails"   -> [driver |-> "live", raised |-> TRUE]

(* close_driver: quit() is not guarded; when it raises, self.driver keeps  *)
(* the session.                                                            *)
close_driver(drv, quit_ok) ==
  IF drv # "none"
  THEN IF quit_ok THEN [driver |-> "none", raised |-> FALSE]
                  ELSE [driver |-> drv, raised |-> TRUE]
  ELSE [driver |-> drv, raised |-> FALSE]

-----------------------------------------------------------------------------
(* The Notifier and the messages.                                          *)

(* send_telegram_message without its try/except: a failed POST raises.    *)
send_telegram_message_raises(message, delivered) ==
  [post |-> [message |-> message, ok |-> delivered], raised |-> ~delivered]

send_telegram_message(message, delivered) ==
  [post |-> [message |-> message, ok |-> delivered], raised |-> FALSE]

Min(a, b) == IF a < b THEN a ELSE b

Take(s, n) == SubSeq(s, 1, Min(Len(s), n))

(* format_notification with the difference taken the wrong way round.    *)
format_notification_reversed(old_total, new_total, new_listings) ==
  LET diff == old_total - new_total IN
  [kind   |-> "change",
   header |-> IF diff > 0 THEN "increase" ELSE "decrease",
   total  |-> new_total,
   diff   |-> diff,
   shown  |-> IF new_listings > 0 /\ diff > 0
              THEN Min(new_listings, ShownListings) ELSE 0]

format_notification(old_total, new_total, new_listings) ==
  LET diff == new_total - old_total IN
  [kind   |-> "change",
   header |-> IF diff > 0 THEN "increase" ELSE "decrease",
   total  |-> new_total,
   diff   |-> diff,
   shown  |-> IF new_listings > 0 /\ diff > 0
              THEN Min(new_listings, ShownListings) ELSE 0]

WarningMessage == [kind |-> "warning"]

WelcomeMessage(total) == [kind |-> "welcome", total |-> total]

StatusMessage(total, check_count) ==
  [kind |-> "status", total |-> total, check_count |-> check_count]

ErrorMessage(msg) == [kind |-> "error", text |-> Take(msg, ErrTrunc)]

-----------------------------------------------------------------------------
(* The decisions and state updates of run().                               *)

(* The first-run test narrowed to a state that has no history yet.        *)
IsFirstRun_EmptyHistory(d) == d["last_total"] = 0 /\ Len(d["history"]) = 0

IsFirstRun(d) == d["last_total"] = 0

FirstRunEntry(total, now) == [timestamp |-> now, total |-> total]

ChangeEntry(total, diff, now) ==
  [timestamp |-> now, total |-> total, change |-> diff]

(* history[:100] in place of history[-100:].                              *)
KeepFirst(h) == IF Len(h) > HistoryCap THEN SubSeq(h, 1, HistoryCap) ELSE h

KeepLast(h) ==
  IF Len(h) > HistoryCap THEN SubSeq(h, Len(h) - HistoryCap + 1, Len(h)) ELSE h

Diff(total, d) == total - d["last_total"]

(* diff >= 0 in place of diff != 0.                                       *)
HasChanged_OrEqual(diff) == diff >= 0

HasChanged(diff) == diff # 0

(* The status condition without its modulus.                              *)
StatusDue_EveryCheck(check_count) == check_count > 0

StatusDue(check_count) == check_count % StatusEvery = 0 /\ check_count > 0

FirstRunData(d, total, now) ==
  [SetKey(d, "last_total", total) EXCEPT
     !["history"] = Append(@, FirstRunEntry(total, now))]

ChangeData(d, total, diff, now) ==
  [SetKey(d, "last_total", total) EXCEPT
     !["history"] = KeepLast(Append(@, ChangeEntry(total, diff, now)))]

-----------------------------------------------------------------------------
(* Exceptions and texts.                                                   *)

NoException == [raised |-> FALSE, msg |-> << >>, at |-> "nowhere"]

Raise(msg, at) == [raised |-> TRUE, msg |-> msg, at |-> at]

Text(n) == [i \in 1..n |-> "x"]

KeyError(k) == Raise(<<"'", k, "'">>, k)

ErrLens == {1, ErrTrunc, MaxErrLen}

ErrMsgs == {Text(n) : n \in ErrLens}

-----------------------------------------------------------------------------
(* The steps of one invocation.                                            *)

(* run(), line 305: the stored last_total is read before the try block.   *)
RunEntry ==
  /\ pc = "entry"
  /\ IF HasKey(data, "last_total")
     THEN /\ pc' = "setup"
          /\ UNCHANGED <<exc, path>>
     ELSE /\ pc' = "raised"
          /\ exc' = KeyError("last_total")
          /\ path' = "raised"
  /\ UNCHANGED <<file, data, driver, current_total, sent, closes, saves,
                 wrote, extracted, data0, file0, clock, log, streak, lost,
                 writes, totals, maxAppends>>

(* run(), line 308: self.setup_driver() inside the try block.             *)
SetupDriver ==
  /\ pc = "setup"
  /\ \E outcome \in {"ok", "chrome_fails", "wait_fails"}, m \in ErrMsgs :
       LET r == setup_driver(outcome) IN
       /\ driver' = r.driver
       /\ IF r.raised
          THEN exc' = Raise(m, "setup") /\ pc' = "except"
          ELSE exc' = exc /\ pc' = "fetch"
  /\ UNCHANGED <<file, data, current_total, sent, closes, saves, wrote,
                 extracted, path, data0, file0, clock, log, streak, lost,
                 writes, totals, maxAppends>>

(* run(), line 311: get_total_results() returns an integer or None; every *)
(* exception inside it is caught there (lines 172-174).                   *)
GetTotalResults ==
  /\ pc = "fetch"
  /\ \E r \in {None} \cup totals : current_total' = r
  /\ pc' = "decide"
  /\ UNCHANGED <<file, data, driver, exc, sent, closes, saves, wrote,
                 extracted, path, data0, file0, clock, log, streak, lost,
                 writes, totals, maxAppends>>

(* A post made inside the try block: an exception from it goes to the     *)
(* except clause, otherwise the block goes on to `next`.                  *)
PostInTry(message, delivered, next) ==
  LET r == send_telegram_message(message, delivered) IN
  /\ sent' = Append(sent, r.post)
  /\ IF r.raised
     THEN exc' = Raise(Text(1), "post") /\ pc' = "except"
     ELSE exc' = exc /\ pc' = next

(* The unreadable-counter branch with a save_data() call added.           *)
CounterUnreadable_Saves ==
  /\ pc = "decide"
  /\ current_total = None
  /\ path' = "null"
  /\ LET s == save_data(data, file, clock, "written") IN
     /\ data' = s.data
     /\ file' = s.file
     /\ saves' = saves + 1
     /\ wrote' = "written"
     /\ clock' = clock + 1
  /\ \E delivered \in BOOLEAN : PostInTry(WarningMessage, delivered, "finally")
  /\ UNCHANGED <<driver, current_total, closes, extracted, data0, file0,
                 log, streak, lost, writes, totals, maxAppends>>

(* run(), lines 313-321. *)
CounterUnreadable ==
  /\ pc = "decide"
  /\ current_total = None
  /\ path' = "null"
  /\ \E delivered \in BOOLEAN : PostInTry(WarningMessage, delivered, "finally")
  /\ UNCHANGED <<file, data, driver, current_total, closes, saves, wrote,
                 extracted, data0, file0, clock, log, streak, lost, writes,
                 totals, maxAppends>>

(* run(), lines 326-342. *)
FirstRun ==
  /\ pc = "decide"
  /\ current_total # None
  /\ IsFirstRun(data)
  /\ path' = "first"
  /\ IF HasKey(data, "history")
     THEN /\ \E outcome \in writes :
               LET s == save_data(FirstRunData(data, current_total, clock), file,
                                  clock + 1, outcome) IN
               /\ data' = s.data
               /\ file' = s.file
               /\ wrote' = outcome
               /\ lost' = (outcome # "written")
          /\ saves' = saves + 1
          /\ clock' = clock + 2
          /\ log' = Append(log, FirstRunEntry(current_total, clock))
          /\ streak' = 0
          /\ \E delivered \in BOOLEAN :
               PostInTry(WelcomeMessage(current_total), delivered, "finally")
     ELSE /\ data' = SetKey(data, "last_total", current_total)
          /\ exc' = KeyError("history")
          /\ pc' = "except"
          /\ UNCHANGED <<file, saves, wrote, clock, log, streak, lost, sent>>
  /\ UNCHANGED <<driver, current_total, closes, extracted, data0, file0,
                 writes, totals, maxAppends>>

(* run(), lines 345-375. *)
ChangeDetected ==
  /\ pc = "decide"
  /\ current_total # None
  /\ ~IsFirstRun(data)
  /\ HasChanged(Diff(current_total, data))
  /\ path' = "change"
  /\ LET diff == Diff(current_total, data) IN
     /\ extracted' = IF diff > 0 THEN extracted + 1 ELSE extracted
     /\ \E new_listings \in (IF diff > 0 THEN 0..MaxListings ELSE {0}),
           delivered \in BOOLEAN :
          LET message == format_notification(data["last_total"], current_total,
                                             new_listings)
              r == send_telegram_message(message, delivered)
          IN
          /\ sent' = Append(sent, r.post)
          /\ IF r.raised
             THEN /\ exc' = Raise(Text(1), "post")
                  /\ pc' = "except"
                  /\ UNCHANGED <<data, file, saves, wrote, clock, log, streak, lost>>
             ELSE IF HasKey(data, "history")
             THEN /\ \E outcome \in writes :
                       LET s == save_data(ChangeData(data, current_total, diff, clock),
                                          file, clock + 1, outcome) IN
                       /\ data' = s.data
                       /\ file' = s.file
                       /\ wrote' = outcome
                       /\ lost' = (lost \/ outcome # "written")
                  /\ saves' = saves + 1
                  /\ clock' = clock + 2
                  /\ log' = Append(log, ChangeEntry(current_total, diff, clock))
                  /\ streak' = streak + 1
                  /\ exc' = exc
                  /\ pc' = "finally"
             ELSE /\ data' = SetKey(data, "last_total", current_total)
                  /\ exc' = KeyError("history")
                  /\ pc' = "except"
                  /\ UNCHANGED <<file, saves, wrote, clock, log, streak, lost>>
  /\ UNCHANGED <<driver, current_total, closes, data0, file0, writes,
                 totals, maxAppends>>

(* run(), lines 345-347 and 376-388. *)
NoChange ==
  /\ pc = "decide"
  /\ current_total # None
  /\ ~IsFirstRun(data)
  /\ ~HasChanged(Diff(current_total, data))
  /\ path' = "nochange"
  /\ LET check_count == IF HasKey(data, "history") THEN Len(data["history"]) ELSE 0 IN
     IF StatusDue(check_count)
     THEN \E delivered \in BOOLEAN :
            PostInTry(StatusMessage(current_total, check_count), delivered, "finally")
     ELSE pc' = "finally" /\ UNCHANGED <<sent, exc>>
  /\ UNCHANGED <<file, data, driver, current_total, closes, saves, wrote,
                 extracted, data0, file0, clock, log, streak, lost, writes,
                 totals, maxAppends>>

(* run(), lines 390-396: the except clause.  An exception raised by the   *)
(* post made here would leave run() after the finally clause.             *)
HandleException ==
  /\ pc = "except"
  /\ path' = "error"
  /\ pc' = "finally"
  /\ \E delivered \in BOOLEAN :
       LET r == send_telegram_message(ErrorMessage(exc.msg), delivered) IN
       /\ sent' = Append(sent, r.post)
       /\ exc' = IF r.raised THEN Raise(Text(1), "post") ELSE NoException
  /\ UNCHANGED <<file, data, driver, current_total, closes, saves, wrote,
                 extracted, data0, file0, clock, log, streak, lost, writes,
                 totals, maxAppends>>

(* run(), lines 397-399: the finally clause.  An exception of quit()       *)
(* leaves run() from here and replaces the one in flight.                  *)
Finally ==
  /\ pc = "finally"
  /\ \E quit_ok \in BOOLEAN :
       LET r == close_driver(driver, quit_ok) IN
       /\ driver' = r.driver
       /\ exc' = IF r.raised THEN Raise(Text(1), "quit") ELSE exc
       /\ pc' = IF r.raised \/ exc.raised THEN "raised" ELSE "returned"
  /\ closes' = closes + 1
  /\ UNCHANGED <<file, data, current_total, sent, saves, wrote,
                 extracted, path, data0, file0, clock, log, streak, lost,
                 writes, totals, maxAppends>>

(* The next scheduled invocation: main() builds a new monitor in a new    *)
(* process, which loads the storage file, and calls run().                *)
main ==
  /\ pc \in {"returned", "raised"}
  /\ Len(log) < maxAppends
  /\ data' = load_data(file)
  /\ data0' = load_data(file)
  /\ file0' = file
  /\ driver' = "none"
  /\ current_total' = Unbound
  /\ exc' = NoException
  /\ sent' = << >>
  /\ closes' = 0
  /\ saves' = 0
  /\ wrote' = "none"
  /\ extracted' = 0
  /\ path' = "start"
  /\ pc' = "entry"
  /\ UNCHANGED <<file, clock, log, streak, lost, writes, totals, maxAppends>>

Next ==
  \/ RunEntry
  \/ SetupDriver
  \/ GetTotalResults
  \/ CounterUnreadable
  \/ FirstRun
  \/ ChangeDetected
  \/ NoChange
  \/ HandleException
  \/ Finally
  \/ main

-----------------------------------------------------------------------------
(* Storage files the program leaves behind: the document after the runs    *)
(* that read the totals ts[1], ts[2], ... in turn, starting without a file, *)
(* every one of them a first run or a change-detecting run.  Run i stamps  *)
(* its entry at 2i-1 and last_check at 2i.  A first run appends, a change- *)
(* detecting run appends and keeps the last HistoryCap entries.            *)

IsChangeRun(ts, i) == i > 1 /\ ts[i - 1] # 0

EntryOfRun(ts, i) ==
  IF IsChangeRun(ts, i)
  THEN ChangeEntry(ts[i], ts[i] - ts[i - 1], 2 * i - 1)
  ELSE FirstRunEntry(ts[i], 2 * i - 1)

LastChangeRun(ts) ==
  LET changes == {i \in 1..Len(ts) : IsChangeRun(ts, i)}
  IN  IF changes = {} THEN 0 ELSE CHOOSE i \in changes : \A j \in changes : j <= i

StoredAfter(ts) ==
  LET n == Len(ts)
      c == LastChangeRun(ts)
  IN  [last_total   |-> IF n = 0 THEN 0 ELSE ts[n],
       last_check   |-> 2 * n,
       history      |-> KeepLast([i \in 1..c |-> EntryOfRun(ts, i)])
                        \o [i \in 1..(n - c) |-> EntryOfRun(ts, c + i)],
       seen_car_ids |-> << >>]

Alternating(n) == [i \in 1..n |-> IF i % 2 = 1 THEN 1 ELSE 2]

Zeros(n) == [i \in 1..n |-> 0]

StoredRuns ==
  {Alternating(n) : n \in {1, 2, StatusEvery - 1, StatusEvery, HistoryCap - 1,
                           HistoryCap, HistoryCap + 1}}
  \cup {Append(Alternating(n), 0) : n \in {StatusEvery - 1, HistoryCap - 1}}
  \cup {Zeros(HistoryCap), Append(Zeros(HistoryCap), 1)}

StoredFiles ==
  {MissingFile, CorruptFile, JsonFile(EmptyObject)}
  \cup {JsonFile(StoredAfter(ts)) : ts \in StoredRuns}

LongStoredFiles ==
  {MissingFile, JsonFile(EmptyObject)}
  \cup {JsonFile(StoredAfter(ts)) :
          ts \in {Alternating(StatusEvery), Alternating(HistoryCap),
                  Append(Zeros(HistoryCap), 1)}}

LastCheck(f) ==
  IF f.kind = "json" /\ HasKey(f.doc, "last_check") THEN f.doc["last_check"] ELSE 0

InitWith(files, pages) ==
  /\ file \in files
  /\ \E p \in pages :
       totals = p.totals /\ maxAppends = p.appends /\ writes = p.writes
  /\ data = load_data(file)
  /\ data0 = load_data(file)
  /\ file0 = file
  /\ driver = "none"
  /\ pc = "entry"
  /\ current_total = Unbound
  /\ exc = NoException
  /\ sent = << >>
  /\ closes = 0
  /\ saves = 0
  /\ wrote = "none"
  /\ extracted = 0
  /\ path = "start"
  /\ clock = LastCheck(file) + 1
  /\ log = << >>
  /\ streak = 0
  /\ lost = FALSE

(* The pages and the disk: any count in 0..MaxTotal and any outcome of a   *)
(* write for a few appends; for many, only 0, or only 1 and 2, on a disk   *)
(* that takes every write, and only 0, or only 1, on a disk that refuses   *)
(* every write.                                                            *)
WriteOutcomes == {"written", "failed", "torn"}

ShortPages == {[totals |-> 0..MaxTotal, appends |-> MaxAppends,
                writes |-> WriteOutcomes]}

LongPages ==
  {[totals |-> t, appends |-> LongAppends, writes |-> {"written"}] :
     t \in {{0}, {1, 2}}}
  \cup {[totals |-> t, appends |-> LongAppends, writes |-> {"failed"}] :
          t \in {{0}, {1}}}

Init == InitWith(StoredFiles, ShortPages)

Spec == Init /\ [][Next]_vars

(* Long sequences of invocations.                                          *)
InitLong == InitWith(LongStoredFiles, LongPages)

SpecLong == InitLong /\ [][Next]_vars

(* Short and long sequences of invocations, starting without a storage    *)
(* file.                                                                   *)
InitFresh == InitWith({MissingFile}, ShortPages \cup LongPages)

SpecFresh == InitFresh /\ [][Next]_vars

-----------------------------------------------------------------------------
(* What an invocation that has left run() shows.                           *)

Exited == pc \in {"returned", "raised"}

Observed == current_total >= 0

PostsOf(kind) == SelectSeq(sent, LAMBDA p : p.message.kind = kind)

SameButCheck(d, e) ==
  /\ DOMAIN d = DOMAIN e
  /\ \A k \in (DOMAIN d) \ {"last_check"} : d[k] = e[k]

LastOf(h) == h[Len(h)]

-----------------------------------------------------------------------------
(* C1: on every exit path of run() close_driver has been executed and no   *)
(* browser session is left live.  The code leaves run() at line 305 with a *)
(* KeyError, outside the try/finally, when the loaded document has no      *)
(* last_total: close_driver is not executed on that path.  And when quit() *)
(* raises inside close_driver, the session is left live.                   *)
C1_SessionReleasedOnEveryExit == Exited => (closes >= 1 /\ driver = "none")

(* What does hold: every exit through the try block has executed           *)
(* close_driver once, and a session is left live only by a quit() that     *)
(* raised.                                                                 *)
SessionReleasedUnlessQuitRaises ==
  /\ (Exited /\ path # "raised") => closes = 1
  /\ (Exited /\ driver # "none") => (exc.raised /\ exc.at = "quit")

(* C2, as stated: for every stored total T and non-null observed total T', *)
(* a run sends the change notification iff T' - T # 0, with the header     *)
(* matching the sign of T' - T.                                            *)
C2_NotifiedIffDiffers ==
  (Exited /\ Observed) =>
    LET diff    == current_total - data0["last_total"]
        changes == PostsOf("change")
    IN  /\ (Len(changes) > 0) <=> (diff # 0)
        /\ \A i \in 1..Len(changes) :
             changes[i].message.header = IF diff > 0 THEN "increase" ELSE "decrease"

(* C2, amended: for every stored total T # 0 and non-null observed total   *)
(* T', a run sends the change notification iff T' - T # 0, with the header *)
(* matching the sign of T' - T.                                            *)
C2_NotifiedIffDiffersFromNonZero ==
  (Exited /\ Observed /\ data0["last_total"] # 0) =>
    LET diff    == current_total - data0["last_total"]
        changes == PostsOf("change")
    IN  /\ (Len(changes) > 0) <=> (diff # 0)
        /\ \A i \in 1..Len(changes) :
             changes[i].message.header = IF diff > 0 THEN "increase" ELSE "decrease"

C2_Witness ==
  /\ pc = "returned" /\ Observed
  /\ data0["last_total"] # 0
  /\ current_total < data0["last_total"]
  /\ Len(sent) = 1
  /\ sent[1].message.kind = "change"
  /\ sent[1].message.header = "decrease"

(* C3: whenever the stored last_total is 0 and the observed total is not   *)
(* null (0 included), run() initializes: last_total becomes the observed   *)
(* total, one entry without a change field is appended, save_data is       *)
(* called once (the file holds the new state when the write succeeds, is   *)
(* as it was when open() fails, and is unreadable when the dump fails) and *)
(* the welcome message is sent; there is no change notification, no        *)
(* listing extraction and no entry with a change field.                    *)
C3_FirstRunInitializes ==
  (Exited /\ Observed /\ data0["last_total"] = 0) =>
    /\ path = "first"
    /\ data["last_total"] = current_total
    /\ Len(data["history"]) = Len(data0["history"]) + 1
    /\ SubSeq(data["history"], 1, Len(data0["history"])) = data0["history"]
    /\ DOMAIN LastOf(data["history"]) = {"timestamp", "total"}
    /\ LastOf(data["history"]).total = current_total
    /\ saves = 1
    /\ wrote \in WriteOutcomes
    /\ wrote = "written" => file = JsonFile(data)
    /\ wrote = "failed" => file = file0
    /\ wrote = "torn" => file = CorruptFile
    /\ Len(sent) = 1
    /\ sent[1].message = [kind |-> "welcome", total |-> current_total]
    /\ extracted = 0

C3_Witness ==
  /\ pc = "returned" /\ Observed
  /\ data0["last_total"] = 0
  /\ current_total = 0
  /\ Len(data0["history"]) > 0
  /\ Len(data["history"]) = Len(data0["history"]) + 1
  /\ wrote = "written"
  /\ file = JsonFile(data)

(* C4: once change-detecting runs have appended more than 100 entries in a *)
(* row, the persisted history has exactly 100 entries, the 100 most        *)
(* recently appended ones, oldest first.  Persisted is what save_data      *)
(* wrote: the statement is about the runs whose writes reached the file    *)
(* (a write that fails is printed by save_data and leaves the file as it   *)
(* was, or unreadable).  Whatever the writes come to, the history a        *)
(* change-detecting run hands to save_data has at most 100 entries.        *)
C4_SavedChangeRunsKeepLastHundred ==
  /\ (streak > HistoryCap /\ ~lost) =>
       /\ file.kind = "json"
       /\ Len(file.doc["history"]) = HistoryCap
       /\ file.doc["history"] = SubSeq(log, Len(log) - HistoryCap + 1, Len(log))
       /\ \A i \in 1..(HistoryCap - 1) :
            file.doc["history"][i].timestamp < file.doc["history"][i + 1].timestamp
  /\ (path = "change" /\ saves = 1) =>
       /\ Len(data["history"]) <= HistoryCap
       /\ wrote = "written" => file = JsonFile(data)
       /\ wrote = "failed" => file = file0

C4_Witness ==
  /\ pc = "returned"
  /\ streak > HistoryCap
  /\ ~lost
  /\ Len(data0["history"]) = HistoryCap

(* C5: after any sequence of runs from the default empty state the history *)
(* in memory and in the state file never has more than 100 entries.  The   *)
(* first-run branch appends without truncating, and runs again whenever    *)
(* the stored last_total is 0.                                             *)
C5_HistoryNeverExceedsCap ==
  /\ HasKey(data, "history") => Len(data["history"]) <= HistoryCap
  /\ (file.kind = "json" /\ HasKey(file.doc, "history")) =>
       Len(file.doc["history"]) <= HistoryCap

(* C6, as stated: for every stored state, a run that reads a total equal   *)
(* to the stored last_total leaves last_total, history and seen_car_ids    *)
(* unchanged, in memory and in the state file.                             *)
C6_NoOpRunLeavesState ==
  (Exited /\ Observed /\ current_total = data0["last_total"]) =>
    /\ SameButCheck(data, data0)
    /\ file.kind = file0.kind
    /\ SameButCheck(file.doc, file0.doc)

(* C6, amended: the same for every stored state whose last_total is not 0. *)
C6_NoOpRunLeavesNonZeroState ==
  (Exited /\ Observed /\ current_total = data0["last_total"]
     /\ data0["last_total"] # 0) =>
    /\ SameButCheck(data, data0)
    /\ file.kind = file0.kind
    /\ SameButCheck(file.doc, file0.doc)

C6_Witness ==
  /\ pc = "returned" /\ Observed
  /\ current_total = data0["last_total"]
  /\ data0["last_total"] # 0
  /\ Len(data0["history"]) > 1
  /\ path = "nochange"

(* C7, as stated: in a run where the observed total equals the stored      *)
(* total, the status message is sent when the history length is a positive *)
(* multiple of 50, and nothing is sent otherwise.                          *)
C7_PeriodicStatus ==
  (Exited /\ Observed /\ current_total = data0["last_total"]) =>
    LET n == Len(data0["history"]) IN
    IF n % StatusEvery = 0 /\ n > 0
    THEN Len(sent) = 1 /\ sent[1].message.kind = "status"
    ELSE Len(sent) = 0

(* C7, amended: the same for a stored total that is not 0.                 *)
C7_PeriodicStatusNonZero ==
  (Exited /\ Observed /\ current_total = data0["last_total"]
     /\ data0["last_total"] # 0) =>
    LET n == Len(data0["history"]) IN
    IF n % StatusEvery = 0 /\ n > 0
    THEN Len(sent) = 1 /\ sent[1].message.kind = "status"
    ELSE Len(sent) = 0

C7_Witness ==
  /\ pc = "returned" /\ Observed
  /\ current_total = data0["last_total"]
  /\ data0["last_total"] # 0
  /\ Len(data0["history"]) = StatusEvery
  /\ Len(sent) = 1
  /\ sent[1].message.kind = "status"

(* C8: in a change-detecting run, whether the Telegram post fails or       *)
(* succeeds, the post raises nothing, last_total is the observed total,    *)
(* the entry with change = diff is appended (the history cut to its last   *)
(* 100) and save_data is called once; the file holds the new state when    *)
(* the write succeeds.                                                     *)
C8_FailedSendStillPersists ==
  (Exited /\ Observed /\ data0["last_total"] # 0
     /\ current_total # data0["last_total"]
     /\ \E i \in 1..Len(sent) : sent[i].message.kind = "change") =>
    LET h  == data["history"]
        h0 == data0["history"]
    IN  /\ path = "change"
        /\ ~(exc.raised /\ exc.at = "post")
        /\ Len(sent) = 1
        /\ data["last_total"] = current_total
        /\ Len(h) = Min(Len(h0) + 1, HistoryCap)
        /\ SubSeq(h, 1, Len(h) - 1) = SubSeq(h0, Len(h0) - Len(h) + 2, Len(h0))
        /\ DOMAIN LastOf(h) = {"timestamp", "total", "change"}
        /\ LastOf(h).total = current_total
        /\ LastOf(h).change = current_total - data0["last_total"]
        /\ saves = 1
        /\ wrote \in WriteOutcomes
        /\ wrote = "written" => file = JsonFile(data)
        /\ wrote = "failed" => file = file0
        /\ wrote = "torn" => file = CorruptFile

C8_Witness ==
  /\ pc = "returned" /\ Observed
  /\ data0["last_total"] # 0
  /\ current_total > data0["last_total"]
  /\ Len(sent) = 1
  /\ sent[1].message.kind = "change"
  /\ ~sent[1].ok
  /\ file = JsonFile(data)
  /\ data["last_total"] = current_total

(* C9: when get_total_results returns None, run() posts exactly the fixed  *)
(* warning, leaves self.data and the state file as they were, does not     *)
(* call save_data, runs neither the first-run nor the diff logic, and      *)
(* reaches the cleanup: close_driver is executed once.                     *)
C9_NullCounterIsSoftFailure ==
  (Exited /\ current_total = None) =>
    /\ path = "null"
    /\ Len(sent) = 1
    /\ sent[1].message = [kind |-> "warning"]
    /\ data = data0
    /\ file = file0
    /\ saves = 0
    /\ wrote = "none"
    /\ extracted = 0
    /\ closes = 1

C9_Witness ==
  /\ pc = "returned"
  /\ current_total = None
  /\ data0["last_total"] = 0
  /\ Len(sent) = 1
  /\ closes = 1

(* C10: every exception raised during run() is caught at the top level and *)
(* does not leave run(); an error notification with at most 200 characters *)
(* of the exception message is sent and the run reaches the cleanup.  The  *)
(* KeyError of line 305 is raised before the try block and leaves run(),   *)
(* and so does an exception of quit() raised in the finally clause.        *)
C10_EveryExceptionCaught ==
  (Exited /\ path \in {"error", "raised"}) =>
    /\ pc = "returned"
    /\ \E i \in 1..Len(sent) :
         /\ sent[i].message.kind = "error"
         /\ Len(sent[i].message.text) <= ErrTrunc
    /\ closes = 1

(* What does hold: an exception raised inside the try block is reported,   *)
(* cut to 200 characters, and the run goes through the cleanup, which it   *)
(* leaves with an exception only when quit() raises.                       *)
ExceptionInTryCaught ==
  (Exited /\ path = "error") =>
    /\ pc = "raised" => exc.at = "quit"
    /\ Len(sent) = 1
    /\ sent[1].message.kind = "error"
    /\ Len(sent[1].message.text) <= ErrTrunc
    /\ closes = 1

====
